---------------------------- MODULE Spec2Model ----------------------------
(***************************************************************************)
(* A model of TileStache/Goodies/Providers/Composite.py: the colour        *)
(* parser make_color, the blend engine blend_images, the adjustments       *)
(* pipeline, Layer.render, Stack.render and Provider.renderTile.           *)
(*                                                                         *)
(* Channel values, which the code keeps in numpy float32 arrays, are       *)
(* modelled as exact rationals <<n, d>>; the conversion to bytes           *)
(* truncates, as numpy's astype(ubyte) does.  Exceptions are modelled as   *)
(* the field exc of a result: "none", or the name of the exception class.  *)
(***************************************************************************)
EXTENDS Integers, Sequences, FiniteSets, TLC

VARIABLES
    pc,         \* position of the call under analysis
    color,      \* make_color: the argument
    colorOut,   \* make_color: what the call produced
    blendArgs,  \* blend_images: the arguments
    blendOut,   \* blend_images: what the call produced
    layer,      \* Layer.render: self
    layerInput,  \* Layer.render: the image given
    layerOut,   \* Layer.render: what the call produced
    stack,      \* Provider.stack: the tree build_stack made
    frames,     \* renderTile: the activations of Stack.render, innermost last
    image,      \* renderTile: the image returned
    raised,     \* renderTile: the exception that left a render
    calls,      \* renderTile: the paths of the nodes whose render was called
    fetchLog,   \* renderTile: the lookups in config.layers, [path, name]
    lastCall    \* renderTile: the Stack.render that returned last

colorVars == <<color, colorOut>>

blendVars == <<blendArgs, blendOut>>

layerVars == <<layer, layerInput, layerOut>>

renderVars == <<stack, frames, image, raised, calls, fetchLog, lastCall>>

vars == <<pc, colorVars, blendVars, layerVars, renderVars>>

(***************************************************************************)
(* Python values the functions return or raise.                            *)
(***************************************************************************)
NoValue == <<>>

Returned(v) == [exc |-> "none", val |-> v]

Raised(e) == [exc |-> e, val |-> NoValue]

(***************************************************************************)
(* make_color (lines 341-377).  A Python value given as colour is a        *)
(* record: its type, and for str and unicode its characters.               *)
(***************************************************************************)
PyStr(s) == [type |-> "str", chars |-> s]

PyOther(t) == [type |-> t, chars |-> <<>>]

HexDigits == <<"0", "1", "2", "3", "4", "5", "6", "7", "8", "9",
               "a", "b", "c", "d", "e", "f">>

UpperHex == <<"0", "1", "2", "3", "4", "5", "6", "7", "8", "9",
              "A", "B", "C", "D", "E", "F">>

IsHexDigit(c) == \E i \in 1..16 : HexDigits[i] = c \/ UpperHex[i] = c

HexVal(c) == (CHOOSE i \in 1..16 : HexDigits[i] = c \/ UpperHex[i] = c) - 1

IsSpace(c) == c \in {" ", "\t", "\n", "\r"}

IsSign(c) == c \in {"+", "-"}

SignOf(c) == IF c = "-" THEN -1 ELSE 1

\* int(s, 16) of Python 2 on a string of two characters: surrounding white
\* space is stripped, one sign is accepted, the digits are case-insensitive;
\* anything else is a ValueError.
PyInt16(s) ==
    LET c1 == s[1]
        c2 == s[2]
    IN  IF IsHexDigit(c1) /\ IsHexDigit(c2)
            THEN Returned(16 * HexVal(c1) + HexVal(c2))
        ELSE IF IsHexDigit(c1) /\ IsSpace(c2) THEN Returned(HexVal(c1))
        ELSE IF IsSpace(c1) /\ IsHexDigit(c2) THEN Returned(HexVal(c2))
        ELSE IF IsSign(c1) /\ IsHexDigit(c2)
            THEN Returned(SignOf(c1) * HexVal(c2))
        ELSE Raised("ValueError")

\* color = ''.join([color[i] for i in idx]), with Python's indices from 0.
Pick(s, idx) == [k \in 1..Len(idx) |-> s[idx[k] + 1]]

Expand3Shifted(s) == Pick(s, <<0, 1, 2, 3, 1, 2, 3>>)

Expand3(s) == Pick(s, <<0, 1, 1, 2, 2, 3, 3>>)

Expand4(s) == Pick(s, <<0, 1, 1, 2, 2, 3, 3, 4, 4>>)

\* Lines 368-377: the try block, on a string of length 7 or 9.
ParseChannels(s) ==
    LET r == PyInt16(SubSeq(s, 2, 3))
        g == PyInt16(SubSeq(s, 4, 5))
        b == PyInt16(SubSeq(s, 6, 7))
        a == IF Len(s) = 7 THEN Returned(255) ELSE PyInt16(SubSeq(s, 8, 9))
    IN  IF r.exc # "none" \/ g.exc # "none" \/ b.exc # "none" \/ a.exc # "none"
            THEN Raised("KnownUnknown")
        ELSE Returned(<<r.val, g.val, b.val, a.val>>)

make_color(c) ==
    IF c.type \notin {"str", "unicode"} THEN Raised("KnownUnknown")
    ELSE IF Len(c.chars) = 0 THEN Raised("IndexError")      \* color[0] of ''
    ELSE IF c.chars[1] # "#" THEN Raised("KnownUnknown")
    ELSE IF Len(c.chars) \notin {4, 5, 7, 9} THEN Raised("KnownUnknown")
    ELSE IF Len(c.chars) = 4 THEN ParseChannels(Expand3(c.chars))
    ELSE IF Len(c.chars) = 5 THEN ParseChannels(Expand4(c.chars))
    ELSE ParseChannels(c.chars)

(***************************************************************************)
(* The colours given to make_color: the literals of ColorTests, every      *)
(* string of at most MaxColorLen characters that starts with one of        *)
(* FirstChars and goes on over BodyChars, and values that are no strings.  *)
(***************************************************************************)
MaxColorLen == 9

FirstChars == {"#", "9"}

BodyChars == {"9", "F", "-"}

TestColors ==
    { <<"#", "f", "f", "f", "f", "f", "f">>, <<"#", "f", "f", "f">>,
      <<"#", "f", "f", "f", "f">>, <<"#", "f", "f", "f", "f", "f", "f", "f", "f">>,
      <<"#", "0", "0", "0", "0", "0", "0">>, <<"#", "0", "0", "0">>,
      <<"#", "0", "0", "0", "f">>, <<"#", "0", "0", "0", "0", "0", "0", "f", "f">>,
      <<"#", "0", "0", "0", "0">>, <<"#", "0", "0", "0", "0", "0", "0", "0", "0">>,
      <<"#", "f", "9", "0">>, <<"#", "f", "f", "9", "9", "0", "0">>,
      <<"#", "f", "f", "9", "9", "0", "0", "f", "f">>,
      <<"#", "f", "9", "0", "8">>, <<"#", "f", "f", "9", "9", "0", "0", "8", "8">>,
      <<"h", "e", "l", "l", "o">>, <<"#", "0", "0">>,
      <<"#", "0", "0", "0", "0", "0">>, <<"#", "0", "0", "0", "0", "0", "0", "0">>,
      <<"#", "0", "0", "0", "0", "0", "0", "0", "0", "0">>,
      <<"#", "f", "o", "o">>, <<"#", "b", "e", "a", "r">>,
      <<"#", "m", "o", "n", "k", "e", "y">>,
      <<"#", "d", "e", "d", "b", "o", "e", "u", "f">>,
      <<"#", " ", "1", " ", "2", " ", "3">>, <<"#", "+", "1", "+", "2", "+", "3">> }

GeneratedColors ==
    {<<>>} \cup
    UNION { { <<f>> \o b : f \in FirstChars, b \in [1..n -> BodyChars] } :
            n \in 0..(MaxColorLen - 1) }

ColorInputs ==
    { PyStr(s) : s \in TestColors \cup GeneratedColors }
    \cup { [type |-> "unicode", chars |-> s] : s \in TestColors }
    \cup { PyOther(t) : t \in {"bool", "NoneType", "int", "list"} }


(***************************************************************************)
(* Exact rationals <<n, d>> with d > 0, in lowest terms: the values of     *)
(* the float arrays.                                                       *)
(***************************************************************************)
RECURSIVE GCD(_, _)
GCD(a, b) == IF b = 0 THEN a ELSE GCD(b, a % b)

Abs(x) == IF x < 0 THEN -x ELSE x

Rat(n, d) ==
    LET g == GCD(Abs(n), d)
    IN  <<n \div g, d \div g>>

RZero == <<0, 1>>

ROne == <<1, 1>>

RHalf == <<1, 2>>

RAdd(x, y) == Rat(x[1] * y[2] + y[1] * x[2], x[2] * y[2])

RSub(x, y) == Rat(x[1] * y[2] - y[1] * x[2], x[2] * y[2])

RMul(x, y) == Rat(x[1] * y[1], x[2] * y[2])

RLess(x, y) == x[1] * y[2] < y[1] * x[2]

\* the integer part of x, rounded toward zero as a C cast does
RTrunc(x) == IF x[1] >= 0 THEN x[1] \div x[2] ELSE -((-x[1]) \div x[2])

(***************************************************************************)
(* Images and arrays.  A PIL image of mode RGBA is the sequence of its     *)
(* pixels <<r, g, b, a>>, row by row; an image of mode L and a numpy array *)
(* are the sequence of their values.  A Python list or tuple of four       *)
(* arrays, and a single array, are records with the type and the arrays.   *)
(***************************************************************************)
Width == 3

Height == 3

NumPixels == Width * Height

Pixels == 1..NumPixels

PyList(arrays) == [type |-> "list", chan |-> arrays]

PyTuple(arrays) == [type |-> "tuple", chan |-> arrays]

NdArray(array) == [type |-> "ndarray", chan |-> <<array>>]

\* PIL.Image.new('RGBA', size, (0, 0, 0, 0))
NewImage == [p \in Pixels |-> <<0, 0, 0, 0>>]

\* numpy.zeros(shape, numpy.float32)
Zeros == [p \in Pixels |-> RZero]

\* im.split()[c], for c in 1..4
Band(im, c) == [p \in Pixels |-> im[p][c]]

\* _img2arr(band).astype(numpy.float32) / 255.0
ToFloat(bytes) == [p \in Pixels |-> Rat(bytes[p], 255)]

\* _img2rgba (lines 396-400)
img2rgba(im) == PyList([c \in 1..4 |-> ToFloat(Band(im, c))])

\* convert('L') of an RGBA image: the ITU-R 601-2 luma of R, G, B; the alpha
\* band is dropped.
ConvertL(im) == [p \in Pixels |-> (im[p][1] * 299 + im[p][2] * 587 + im[p][3] * 114) \div 1000]

\* What astype(numpy.ubyte) gives for a float: its integer part when that is
\* in 0..255.  Outside that range the C conversion is undefined; ub is the
\* outcome the build produces: the value modulo 256, or the nearest bound.
UBOutcomes == {"wrap", "saturate"}

ToUByteSaturating(x, ub) ==
    LET t == RTrunc(x)
    IN  IF t < 0 THEN 0 ELSE IF t > 255 THEN 255 ELSE t

ToUByte(x, ub) ==
    LET t == RTrunc(x)
    IN  IF t \in 0..255 THEN t
        ELSE IF ub = "wrap" THEN t % 256
        ELSE IF t < 0 THEN 0 ELSE 255

\* _rgba2img (lines 390-394): (band * 255.0).astype(numpy.ubyte), merged.
rgba2img(rgba, ub) ==
    IF rgba.type # "list" THEN Raised("AssertionError")
    ELSE Returned([p \in Pixels |->
            [c \in 1..4 |-> ToUByte(RMul(rgba.chan[c][p], <<255, 1>>), ub)]])

(***************************************************************************)
(* config.layers: the four bitmaps of CompositeTests.setUp, and two more   *)
(* with partly transparent, coloured pixels and with intermediate greys.   *)
(* TileStache.getTile and PIL.Image.open return the layer's bitmap.        *)
(***************************************************************************)
fff == <<255, 255, 255, 255>>

ccc == <<204, 204, 204, 255>>

p999 == <<153, 153, 153, 255>>

p000 == <<0, 0, 0, 255>>

nil == <<0, 0, 0, 0>>

ConfigLayers ==
    [ base     |-> <<ccc, ccc, ccc, ccc, ccc, ccc, ccc, ccc, ccc>>,
      halos    |-> <<fff, fff, p000, fff, fff, p000, p000, p000, p000>>,
      outlines |-> <<nil, p999, p999, p999, p999, p999, p999, p999, nil>>,
      streets  |-> <<nil, nil, fff, nil, fff, nil, fff, nil, nil>>,
      tint     |-> << <<255, 153, 0, 102>>, <<0, 102, 204, 51>>, <<204, 204, 204, 204>>,
                      <<255, 0, 0, 0>>, <<0, 0, 0, 255>>, <<255, 255, 255, 153>>,
                      <<51, 102, 153, 255>>, <<0, 0, 0, 0>>, <<102, 51, 0, 204>> >>,
      fade     |-> << <<0, 0, 0, 255>>, <<51, 51, 51, 255>>, <<102, 102, 102, 255>>,
                      <<153, 153, 153, 255>>, <<204, 204, 204, 255>>, fff,
                      <<0, 0, 0, 0>>, <<255, 255, 255, 0>>, <<102, 102, 102, 51>> >> ]

LayerNames == DOMAIN ConfigLayers

\* a name config.layers does not hold
MissingName == "nowhere"

\* layer = config.layers[name]; mime, body = TileStache.getTile(layer, coord, 'png');
\* PIL.Image.open(StringIO(body))
getTile(name) ==
    IF name \in LayerNames THEN Returned(ConfigLayers[name]) ELSE Raised("KeyError")

(***************************************************************************)
(* blend_images (lines 451-495).  Python's None is the token None, a       *)
(* blend mode is a string.  The result says, beside the value returned,    *)
(* which of its four arrays are the very arrays of bottom_rgba (shares),   *)
(* and what bottom_rgba holds after the call (bottom): assignments through *)
(* a mask index, output_rgba[c][dk] = ..., write into the array in place.  *)
(***************************************************************************)
None == "<None>"

Falsy(v) == v \in {None, ""}

BottomOverTop(m, b, t) == RAdd(RMul(m, b), RMul(RSub(ROne, m), t))

\* (1 - m) * b + m * t
PlainChannel(m, b, t) == RAdd(RMul(RSub(ROne, m), b), RMul(m, t))

\* intersect = t_a * m;  1 - (1 - b_a) * (1 - intersect)
PlainAlpha(m, ba, ta) == RSub(ROne, RMul(RSub(ROne, ba), RSub(ROne, RMul(ta, m))))

\* dk: 2 * b * t;  lt: 1 - 2 * (1 - b) * (1 - t)
HardLightChannel(b, t) ==
    IF RLess(t, RHalf) THEN RMul(<<2, 1>>, RMul(b, t))
    ELSE RSub(ROne, RMul(<<2, 1>>, RMul(RSub(ROne, b), RSub(ROne, t))))

\* (1 - opacity) * b + opacity * x
OpacityChannel(opacity, b, x) == RAdd(RMul(RSub(ROne, opacity), b), RMul(opacity, x))

\* output_rgba = [numpy.copy(chan) for chan in bottom_rgba]: the channels of
\* the output that are bottom's own arrays.
SharedByShallowCopy(bottom_rgba) == 1..4

SharedAfterCopy(bottom_rgba) == {}

BlendResult(e, v, sh, b) == [exc |-> e, val |-> v, shares |-> sh, bottom |-> b]

\* the mask the arithmetic uses: the alpha channel of a list (lines 468-470)
MaskOf(mask_chan) ==
    IF mask_chan.type = "list" THEN NdArray(mask_chan.chan[4]) ELSE mask_chan

\* lines 472-479
PlainPaste(bottom_rgba, top_rgba, m) ==
    [c \in 1..4 |->
        IF c < 4
            THEN [p \in Pixels |-> PlainChannel(m[p], bottom_rgba.chan[c][p], top_rgba.chan[c][p])]
        ELSE [p \in Pixels |-> PlainAlpha(m[p], bottom_rgba.chan[4][p], top_rgba.chan[4][p])]]

\* lines 481-487: only R, G and B are written
HardLight(bottom_rgba, top_rgba) ==
    [c \in 1..4 |->
        IF c < 4
            THEN [p \in Pixels |-> HardLightChannel(bottom_rgba.chan[c][p], top_rgba.chan[c][p])]
        ELSE bottom_rgba.chan[4]]

\* lines 492-493, with bottom as it is when they run
ApplyOpacity(opacity, bottom, out) ==
    [c \in 1..4 |->
        IF c < 4 THEN [p \in Pixels |-> OpacityChannel(opacity, bottom[c][p], out[c][p])]
        ELSE out[4]]

OpacityIsZeroLate(opacity, blendmode) == opacity = RZero /\ (Falsy(blendmode) \/ blendmode = "hard light")

OpacityIsZero(opacity, blendmode) == opacity = RZero

blend_images(bottom_rgba, top_rgba, mask_chan, opacity, blendmode) ==
    LET shared == SharedAfterCopy(bottom_rgba)
        mask   == MaskOf(mask_chan)
    IN  IF OpacityIsZero(opacity, blendmode)
            THEN BlendResult("none", PyList(bottom_rgba.chan), shared, bottom_rgba.chan)
        ELSE IF Falsy(blendmode)
            THEN IF mask.type # "ndarray"
                    \* 1 - mask_chan, with a tuple for mask_chan
                    THEN BlendResult("TypeError", NoValue, {}, bottom_rgba.chan)
                 ELSE LET out == PlainPaste(bottom_rgba, top_rgba, mask.chan[1])
                      IN  BlendResult("none",
                                      PyList(ApplyOpacity(opacity, bottom_rgba.chan, out)),
                                      {}, bottom_rgba.chan)
        ELSE IF blendmode = "hard light"
            THEN LET out == HardLight(bottom_rgba, top_rgba)
                     \* written in place: a shared array changes bottom too
                     bot == [c \in 1..4 |->
                                IF c \in shared THEN out[c] ELSE bottom_rgba.chan[c]]
                 IN  BlendResult("none", PyList(ApplyOpacity(opacity, bot, out)),
                                 shared \ {1, 2, 3}, bot)
        ELSE BlendResult("KnownUnknown", NoValue, {}, bottom_rgba.chan)

(***************************************************************************)
(* apply_adjustments and apply_curves_adjustment (lines 402-449).  The     *)
(* adjustments of a layer are None or a list of (name, args).              *)
(***************************************************************************)
NoAdjustments == [type |-> "NoneType", items |-> <<>>]

Adjustments(items) == [type |-> "list", items |-> items]

Adjustment(name, args) == [name |-> name, args |-> args]

RDiv(x, y) == IF y[1] > 0 THEN Rat(x[1] * y[2], x[2] * y[1])
              ELSE Rat(-(x[1] * y[2]), x[2] * (-y[1]))

\* black, grey, white = black / 255.0, grey / 255.0, white / 255.0
Knowns(args) == [i \in 1..3 |-> Rat(args[i], 255)]

\* The three equations of lines 435-437 have a solution, and then exactly
\* one, when the knowns differ pairwise.
Solvable(x) == x[1] # x[2] /\ x[1] # x[3] /\ x[2] # x[3]

\* sympy.solve(eqs, a, b, c): the quadratic through (black, 0), (grey, 1/2)
\* and (white, 1), as <<a, b, c>>.
SolveCurve(x) ==
    LET d2 == RMul(RSub(x[2], x[1]), RSub(x[2], x[3]))
        d3 == RMul(RSub(x[3], x[1]), RSub(x[3], x[2]))
        w2 == RDiv(RHalf, d2)
        w3 == RDiv(ROne, d3)
    IN  << RAdd(w2, w3),
           RSub(RZero, RAdd(RMul(w2, RAdd(x[1], x[3])), RMul(w3, RAdd(x[1], x[2])))),
           RAdd(RMul(w2, RMul(x[1], x[3])), RMul(w3, RMul(x[1], x[2]))) >>

\* a * v**2 + b * v + c
CurveValue(co, v) == RAdd(RAdd(RMul(co[1], RMul(v, v)), RMul(co[2], v)), co[3])

\* With knowns that do not differ pairwise sympy.solve returns no solution
\* and co[n] fails: an exception, and not KnownUnknown, leaves the function.
apply_curves_adjustment(rgba, args) ==
    LET x == Knowns(args)
    IN  IF ~Solvable(x) THEN Raised("TypeError")
        ELSE LET co == SolveCurve(x)
             IN  Returned(PyTuple([c \in 1..4 |->
                    IF c < 4 THEN [p \in Pixels |-> CurveValue(co, rgba.chan[c][p])]
                    ELSE rgba.chan[4]]))

RECURSIVE AdjustFrom(_, _, _)
AdjustFrom(rgba, items, i) ==
    IF i > Len(items) THEN Returned(rgba)
    ELSE IF items[i].name = "curves"
        THEN LET r == apply_curves_adjustment(rgba, items[i].args)
             IN  IF r.exc # "none" THEN r ELSE AdjustFrom(r.val, items, i + 1)
    ELSE Raised("KnownUnknown")

apply_adjustments(rgba, adjustments) ==
    IF Len(adjustments.items) = 0 THEN Returned(rgba)
    ELSE AdjustFrom(rgba, adjustments.items, 1)

(***************************************************************************)
(* Layer (lines 216-309).                                                  *)
(***************************************************************************)
Layer(layername, colorname, maskname, opacity, blendmode, adjustments) ==
    [kind |-> "layer", layername |-> layername, colorname |-> colorname,
     maskname |-> maskname, opacity |-> opacity, blendmode |-> blendmode,
     adjustments |-> adjustments]

NoColor == PyOther("NoneType")

\* if self.layername: ..., if self.maskname: ...
NameGiven(name) == ~Falsy(name)

\* if self.colorname:
ColorGiven(c) ==
    IF c.type \in {"str", "unicode"} THEN Len(c.chars) > 0 ELSE c.type # "NoneType"

\* numpy.zeros(shape, numpy.float32) + band / 255.0, for band in color
ColorRgba(col) == PyList([c \in 1..4 |-> [p \in Pixels |-> Rat(col[c], 255)]])

LayerResult(e, v, f) == [exc |-> e, val |-> v, fetched |-> f]

\* lines 278-305, once the layer, the mask and the colour are at hand; what
\* it returns is output_rgba, or the exception raised
NeverAllThree(has_layer, has_color, has_mask) == FALSE

\* line 278
AllThree(has_layer, has_color, has_mask) == has_layer /\ has_color /\ has_mask

Combine(self, output_rgba, layer_rgba, mask_chan, color_rgba, has_layer, has_color, has_mask) ==
    IF AllThree(has_layer, has_color, has_mask) THEN BlendResult("KnownUnknown", NoValue, {}, NoValue)
    ELSE IF has_layer /\ has_color
        THEN LET first == blend_images(output_rgba, color_rgba, color_rgba,
                                       self.opacity, self.blendmode)
             IN  IF first.exc # "none" THEN first
                 ELSE blend_images(first.val, layer_rgba, layer_rgba,
                                   self.opacity, self.blendmode)
    ELSE IF has_layer /\ has_mask
        THEN LET layermask == blend_images(PyList(<<Zeros, Zeros, Zeros, Zeros>>),
                                           layer_rgba, mask_chan, ROne, None)
             IN  IF layermask.exc # "none" THEN layermask
                 ELSE blend_images(output_rgba, layermask.val, layermask.val,
                                   self.opacity, self.blendmode)
    ELSE IF has_color /\ has_mask
        THEN blend_images(output_rgba, color_rgba, mask_chan, self.opacity, self.blendmode)
    ELSE IF has_layer
        THEN blend_images(output_rgba, layer_rgba, layer_rgba, self.opacity, self.blendmode)
    ELSE IF has_color
        THEN blend_images(output_rgba, color_rgba, color_rgba, self.opacity, self.blendmode)
    ELSE BlendResult("KnownUnknown", NoValue, {}, NoValue)

\* Layer.render (lines 243-309).  fetched lists the names looked up in
\* config.layers, in order.
LayerRender(self, input_img, ub) ==
    LET output_rgba == img2rgba(input_img)
        has_layer == NameGiven(self.layername)
        has_mask  == NameGiven(self.maskname)
        has_color == ColorGiven(self.colorname)
        layer_img == getTile(self.layername)
        mask_img  == getTile(self.maskname)
        parsed    == make_color(self.colorname)
        fetch1    == IF has_layer THEN <<self.layername>> ELSE <<>>
        fetch2    == IF has_mask THEN fetch1 \o <<self.maskname>> ELSE fetch1
    IN  IF has_layer /\ layer_img.exc # "none" THEN LayerResult(layer_img.exc, NoValue, fetch1)
        ELSE IF has_mask /\ mask_img.exc # "none" THEN LayerResult(mask_img.exc, NoValue, fetch2)
        ELSE IF has_color /\ parsed.exc # "none" THEN LayerResult(parsed.exc, NoValue, fetch2)
        ELSE
        LET adjusted == IF has_layer
                            THEN apply_adjustments(img2rgba(layer_img.val), self.adjustments)
                        ELSE Returned(NoValue)
        IN  IF adjusted.exc # "none" THEN LayerResult(adjusted.exc, NoValue, fetch2)
            ELSE
            LET mask_chan == IF has_mask THEN NdArray(ToFloat(ConvertL(mask_img.val)))
                             ELSE NoValue
                color_rgba == IF has_color THEN ColorRgba(parsed.val) ELSE NoValue
                out == Combine(self, output_rgba, adjusted.val, mask_chan, color_rgba,
                               has_layer, has_color, has_mask)
            IN  IF out.exc # "none" THEN LayerResult(out.exc, NoValue, fetch2)
                ELSE LET img == rgba2img(out.val, ub)
                     IN  LayerResult(img.exc, img.val, fetch2)

(***************************************************************************)
(* Stack (lines 311-339), build_stack (lines 195-214) and Provider         *)
(* (lines 139-188).  A node of the tree is reached by its path: the        *)
(* indices of the children to take from the root.                          *)
(***************************************************************************)
Stack(layers) == [kind |-> "stack", layers |-> layers]

\* build_stack on a dictionary: the keys it holds become the arguments
SrcLayer(name) == Layer(name, NoColor, None, ROne, None, NoAdjustments)

ColorLayer(c) == Layer(None, PyStr(c), None, ROne, None, NoAdjustments)

SrcMaskLayer(name, mask) == Layer(name, NoColor, mask, ROne, None, NoAdjustments)

ColorMaskLayer(c, mask) == Layer(None, PyStr(c), mask, ROne, None, NoAdjustments)

RECURSIVE NodeAt(_, _)
NodeAt(node, path) ==
    IF path = <<>> THEN node ELSE NodeAt(node.layers[Head(path)], Tail(path))

\* MULDIV255 and BLEND of PIL's paste
MulDiv255(a, b) ==
    LET tmp == a * b + 128
    IN  ((tmp \div 256) + tmp) \div 256

PasteWithoutMask(input, stack_img) == stack_img

\* output_img = input_img.copy(); output_img.paste(stack_img, (0, 0), stack_img):
\* every band of stack_img is blended in by stack_img's alpha band
Paste(input, stack_img) ==
    [p \in Pixels |-> [c \in 1..4 |->
        MulDiv255(input[p][c], 255 - stack_img[p][4])
            + MulDiv255(stack_img[p][c], stack_img[p][4])]]

\* lines 336-337: paste writes into output_img, the copy; what is returned,
\* and what input_img holds afterwards
CopyThenPaste(input, stack_img) == [output |-> Paste(input, stack_img), input |-> input]

\* One activation of Stack.render: the stack's path, the index i of the
\* next layer of self.layers, input_img and stack_img.
Frame(path, i, input, stack_img) ==
    [path |-> path, i |-> i, input |-> input, stack_img |-> stack_img]

\* stack_img = PIL.Image.new('RGBA', input_img.size, (0, 0, 0, 0))
EnterStack(path, input) == Frame(path, 1, input, NewImage)

\* stack_img = layer.render(config, stack_img, coord), and the loop goes on
Advance(frame, img) == [frame EXCEPT !.stack_img = img, !.i = @ + 1]

SkipFailedLayer(fs) == [fs EXCEPT ![Len(fs)].i = @ + 1]

\* An exception raised by layer.render: neither Stack.render nor
\* renderTile catches anything, so it ends every activation.
Unwind(fs) == <<>>

(***************************************************************************)
(* What the variables of a call hold in the specifications of the others.  *)
(***************************************************************************)
ColorIdle == color = PyOther("NoneType") /\ colorOut = Raised("idle")

NoBlendArgs == [bottom |-> NoValue, top |-> NoValue, mask |-> NoValue,
                opacity |-> RZero, blendmode |-> None]

BlendIdle == blendArgs = NoBlendArgs /\ blendOut = BlendResult("idle", NoValue, {}, NoValue)

LayerIdle ==
    /\ layer = Layer(None, NoColor, None, ROne, None, NoAdjustments)
    /\ layerInput = NewImage
    /\ layerOut = LayerResult("idle", NoValue, <<>>)

NoCall == [path |-> <<>>, input |-> NoValue, inputAfter |-> NoValue, output |-> NoValue,
           returned |-> FALSE]

\* the exception that left a render, and the path of the node that raised it
Failure(exc, path) == [exc |-> exc, path |-> path]

RenderStart ==
    /\ frames = <<>>
    /\ image = NoValue
    /\ raised = Failure("none", <<>>)
    /\ calls = <<>>
    /\ fetchLog = <<>>
    /\ lastCall = NoCall

RenderIdle == stack = Stack(<<>>) /\ RenderStart

(***************************************************************************)
(* blend_images on its own: the arguments are drawn from the bitmaps of    *)
(* config.layers, three opacities and four blend modes.                    *)
(***************************************************************************)
SampleImages == {NewImage} \cup {ConfigLayers[n] : n \in LayerNames}

Opacities == {RZero, RHalf, ROne}

BlendModes == {None, "", "hard light", "multiply"}

BlendTops ==
    {img2rgba(im) : im \in SampleImages}
    \cup {PyTuple(img2rgba(im).chan) : im \in SampleImages}

BlendMasks ==
    BlendTops \cup {NdArray(ToFloat(ConvertL(ConfigLayers[n]))) : n \in {"halos", "fade"}}

InitBlend ==
    /\ pc = "call"
    /\ RenderIdle
    /\ ColorIdle
    /\ LayerIdle
    /\ blendArgs \in [bottom : {img2rgba(im) : im \in SampleImages},
                      top : BlendTops, mask : BlendMasks,
                      opacity : Opacities, blendmode : BlendModes]
    /\ blendOut = BlendResult("pending", NoValue, {}, NoValue)

CallBlendImages ==
    /\ pc = "call"
    /\ blendOut' = blend_images(blendArgs.bottom, blendArgs.top, blendArgs.mask,
                                blendArgs.opacity, blendArgs.blendmode)
    /\ pc' = "done"
    /\ UNCHANGED <<blendArgs, colorVars, layerVars, renderVars>>

NextBlend == CallBlendImages

SpecBlend == InitBlend /\ [][NextBlend]_vars

(***************************************************************************)
(* make_color on its own.                                                  *)
(***************************************************************************)
InitColor ==
    /\ pc = "call"
    /\ RenderIdle
    /\ color \in ColorInputs
    /\ colorOut = Raised("pending")
    /\ BlendIdle
    /\ LayerIdle

CallMakeColor ==
    /\ pc = "call"
    /\ colorOut' = make_color(color)
    /\ pc' = "done"
    /\ UNCHANGED <<color, blendVars, layerVars, renderVars>>

NextColor == CallMakeColor

SpecColor == InitColor /\ [][NextColor]_vars

(***************************************************************************)
(* Layer.render on its own: a layer built from every combination of the    *)
(* sample fields, rendered onto a sample image.                            *)
(***************************************************************************)
Chars3(a, b, c) == <<"#", a, b, c>>

ColorNames ==
    { NoColor, PyStr(Chars3("9", "9", "9")), PyStr(<<"#", "f", "9", "0", "8">>),
      PyStr(<<"r", "e", "d">>) }

GoodCurves == Adjustment("curves", <<0, 102, 255>>)

\* solve(100, 100, 200): black and grey coincide
BadCurves == Adjustment("curves", <<100, 100, 200>>)

\* black, grey and white on a line of slope 5/2: values below 51 and above
\* 153 leave [0, 1]
SteepCurves == Adjustment("curves", <<51, 102, 153>>)

Levels == Adjustment("levels", <<0, 102, 255>>)

AdjustmentLists ==
    { NoAdjustments, Adjustments(<<>>), Adjustments(<<GoodCurves>>),
      Adjustments(<<BadCurves>>), Adjustments(<<SteepCurves>>), Adjustments(<<Levels>>),
      Adjustments(<<GoodCurves, Levels>>) }

LayerModes == {None, "hard light", "multiply"}

SampleLayers ==
    { Layer(l, c, m, o, b, a) :
        l \in {None, "outlines", "tint", MissingName}, c \in ColorNames,
        m \in {None, "halos", "fade", MissingName}, o \in Opacities,
        b \in LayerModes, a \in AdjustmentLists }

LayerInputs == {NewImage, ConfigLayers.base, ConfigLayers.tint, ConfigLayers.streets}

InitLayer ==
    /\ pc = "call"
    /\ RenderIdle
    /\ ColorIdle
    /\ BlendIdle
    /\ layer \in SampleLayers
    /\ layerInput \in LayerInputs
    /\ layerOut = LayerResult("pending", NoValue, <<>>)

CallLayerRender ==
    /\ pc = "call"
    /\ \E ub \in UBOutcomes : layerOut' = LayerRender(layer, layerInput, ub)
    /\ pc' = "done"
    /\ UNCHANGED <<layer, layerInput, colorVars, blendVars, renderVars>>

NextLayer == CallLayerRender

SpecLayer == InitLayer /\ [][NextLayer]_vars

(***************************************************************************)
(* Provider.renderTile, step by step: Stack.render's loop is one step per  *)
(* layer, Layer.render is one step.  The trees are the stacks of           *)
(* CompositeTests, single layers, and every tree of at most MaxNodes       *)
(* nodes over TreeLeaves.                                                  *)
(***************************************************************************)
MaxNodes == 5

TreeLeaves ==
    { SrcLayer("outlines"), SrcLayer("streets"), SrcLayer(MissingName) }

RECURSIVE TreesOfSize(_), ForestsOfSize(_)
TreesOfSize(n) ==
    (IF n = 1 THEN TreeLeaves ELSE {}) \cup {Stack(f) : f \in ForestsOfSize(n - 1)}

ForestsOfSize(m) ==
    IF m = 0 THEN {<<>>}
    ELSE UNION { { <<t>> \o f : t \in TreesOfSize(j), f \in ForestsOfSize(m - j) } :
                 j \in 1..m }

c999 == <<"#", "9", "9", "9">>

cCCC == <<"#", "c", "c", "c">>

TestStack0 ==
    Stack(<<SrcLayer("base"), Stack(<<SrcLayer("outlines"), SrcLayer("streets")>>)>>)

TestStack1 ==
    Stack(<<SrcLayer("base"),
            Stack(<<SrcMaskLayer("outlines", "halos"), SrcLayer("streets")>>)>>)

TestStack2 ==
    Stack(<<ColorLayer(cCCC),
            Stack(<<SrcMaskLayer("outlines", "halos"), SrcLayer("streets")>>)>>)

TestStack3 ==
    Stack(<<ColorLayer(cCCC),
            Stack(<<ColorMaskLayer(c999, "halos"), SrcLayer("streets")>>)>>)

TestStack4 ==
    Stack(<<Stack(<<ColorMaskLayer(c999, "halos"), SrcLayer("streets")>>)>>)

\* stacks nested over a layer whose pixels are partly transparent
TintStacks ==
    { Stack(<<SrcLayer("tint"), Stack(f)>>) : f \in UNION {ForestsOfSize(n) : n \in 0..2} }

TestStacks == {TestStack0, TestStack1, TestStack2, TestStack3, TestStack4}

\* a stack whose second layer is one of the sample layers, over the base
FailingStacks ==
    { Stack(<<SrcLayer("base"), l, SrcLayer("streets")>>) :
        l \in { Layer(n, c, m, ROne, b, a) :
                  n \in {None, "outlines"}, c \in ColorNames, m \in {None, "halos", MissingName},
                  b \in LayerModes, a \in AdjustmentLists } }

RenderTrees ==
    TestStacks \cup TintStacks \cup FailingStacks \cup SampleLayers
        \cup UNION {TreesOfSize(n) : n \in 1..MaxNodes}

InitRender ==
    /\ pc = "call"
    /\ ColorIdle
    /\ BlendIdle
    /\ LayerIdle
    /\ stack \in RenderTrees
    /\ RenderStart

Top == frames[Len(frames)]

Self == NodeAt(stack, Top.path)

ChildPath == Append(Top.path, Top.i)

Child == Self.layers[Top.i]

Fetches(path, names) == [k \in 1..Len(names) |-> [path |-> path, name |-> names[k]]]

\* renderTile, self.stack a Stack: Stack.render is entered
RenderTileStack ==
    /\ pc = "call"
    /\ stack.kind = "stack"
    /\ frames' = <<EnterStack(<<>>, NewImage)>>
    /\ calls' = << <<>> >>
    /\ pc' = "running"
    /\ UNCHANGED <<stack, image, raised, fetchLog, lastCall, colorVars, blendVars, layerVars>>

\* renderTile, self.stack a Layer: build_stack made a Layer of a dictionary
RenderTileLayer ==
    /\ pc = "call"
    /\ stack.kind = "layer"
    /\ \E ub \in UBOutcomes : \E r \in {LayerRender(stack, NewImage, ub)} :
        /\ image' = r.val
        /\ raised' = Failure(r.exc, <<>>)
        /\ fetchLog' = Fetches(<<>>, r.fetched)
    /\ calls' = << <<>> >>
    /\ pc' = "done"
    /\ UNCHANGED <<stack, frames, lastCall, colorVars, blendVars, layerVars>>

\* the loop of Stack.render, on a Layer
RenderChildLayer ==
    /\ pc = "running"
    /\ Top.i <= Len(Self.layers)
    /\ Child.kind = "layer"
    /\ calls' = Append(calls, ChildPath)
    /\ \E ub \in UBOutcomes : \E r \in {LayerRender(Child, Top.stack_img, ub)} :
        /\ fetchLog' = fetchLog \o Fetches(ChildPath, r.fetched)
        /\ IF r.exc # "none"
              THEN /\ raised' = Failure(r.exc, ChildPath)
                   /\ frames' = Unwind(frames)
              ELSE /\ frames' = [frames EXCEPT ![Len(frames)] = Advance(@, r.val)]
                   /\ UNCHANGED raised
    /\ pc' = IF frames' = <<>> THEN "done" ELSE "running"
    /\ UNCHANGED <<stack, image, lastCall, colorVars, blendVars, layerVars>>

\* the loop of Stack.render, on a nested Stack
RenderChildStack ==
    /\ pc = "running"
    /\ Top.i <= Len(Self.layers)
    /\ Child.kind = "stack"
    /\ calls' = Append(calls, ChildPath)
    /\ frames' = Append(frames, EnterStack(ChildPath, Top.stack_img))
    /\ UNCHANGED <<pc, stack, image, raised, fetchLog, lastCall, colorVars, blendVars, layerVars>>

\* the end of Stack.render: stack_img is pasted on a copy of input_img
ReturnFromStack ==
    /\ pc = "running"
    /\ Top.i > Len(Self.layers)
    /\ \E pasted \in {CopyThenPaste(Top.input, Top.stack_img)} : \E output_img \in {pasted.output} :
           /\ lastCall' = [path |-> Top.path, input |-> Top.input, inputAfter |-> pasted.input,
                           output |-> output_img, returned |-> TRUE]
           /\ IF Len(frames) = 1
                 THEN /\ image' = output_img
                      /\ frames' = <<>>
                      /\ pc' = "done"
                 ELSE /\ frames' = [SubSeq(frames, 1, Len(frames) - 1)
                                       EXCEPT ![Len(frames) - 1] = Advance(@, output_img)]
                      /\ UNCHANGED <<image, pc>>
    /\ UNCHANGED <<stack, raised, calls, fetchLog, colorVars, blendVars, layerVars>>

NextRender ==
    \/ RenderTileStack
    \/ RenderTileLayer
    \/ RenderChildLayer
    \/ RenderChildStack
    \/ ReturnFromStack

SpecRender == InitRender /\ [][NextRender]_vars

(***************************************************************************)
(* What CompositeTests.test0 to test4 expect of renderTile.                *)
(***************************************************************************)
TestImage0 == <<ccc, p999, fff, p999, fff, p999, fff, p999, ccc>>

TestImage1 == <<ccc, p999, fff, p999, fff, ccc, fff, ccc, ccc>>

TestImage3 == <<p999, p999, fff, p999, fff, ccc, fff, ccc, ccc>>

TestImage4 == <<p999, p999, fff, p999, fff, nil, fff, nil, nil>>

TestsPass ==
    pc = "done" =>
        /\ stack = TestStack0 => image = TestImage0
        /\ stack = TestStack1 => image = TestImage1
        /\ stack = TestStack2 => image = TestImage1
        /\ stack = TestStack3 => image = TestImage3
        /\ stack = TestStack4 => image = TestImage4
(***************************************************************************)
(* Calls in sequence: blend_images, Layer.render and renderTile are called *)
(* again, on the objects the call before left behind.                      *)
(***************************************************************************)
InBlend == blendOut.exc # "idle"

InLayer == layerOut.exc # "idle"

InRender == ~InBlend /\ ~InLayer

InitRepeat == InitBlend \/ InitLayer \/ InitRender

\* blend_images once more, bottom_rgba being the list of the call before
BlendAgain ==
    /\ pc = "done"
    /\ blendArgs' = [blendArgs EXCEPT !.bottom = PyList(blendOut.bottom)]
    /\ blendOut' = BlendResult("pending", NoValue, {}, NoValue)
    /\ pc' = "call"
    /\ UNCHANGED <<colorVars, layerVars, renderVars>>

\* render once more, of the same Layer on the same image
LayerAgain ==
    /\ pc = "done"
    /\ layerOut' = LayerResult("pending", NoValue, <<>>)
    /\ pc' = "call"
    /\ UNCHANGED <<layer, layerInput, colorVars, blendVars, renderVars>>

\* renderTile once more, of the same Provider: self.stack is the tree built
\* by __init__
RenderAgain ==
    /\ pc = "done"
    /\ frames' = <<>>
    /\ image' = NoValue
    /\ raised' = Failure("none", <<>>)
    /\ calls' = <<>>
    /\ fetchLog' = <<>>
    /\ lastCall' = NoCall
    /\ pc' = "call"
    /\ UNCHANGED <<stack, colorVars, blendVars, layerVars>>

\* the steps of the call under way, and of no other
BlendCall == InBlend /\ CallBlendImages

BlendNext == InBlend /\ BlendAgain

LayerCall == InLayer /\ CallLayerRender

LayerNext == InLayer /\ LayerAgain

TileStack == InRender /\ RenderTileStack

TileLayer == InRender /\ RenderTileLayer

ChildLayer == InRender /\ RenderChildLayer

ChildStack == InRender /\ RenderChildStack

StackReturn == InRender /\ ReturnFromStack

TileNext == InRender /\ RenderAgain

NextRepeat ==
    \/ BlendCall
    \/ BlendNext
    \/ LayerCall
    \/ LayerNext
    \/ TileStack
    \/ TileLayer
    \/ ChildLayer
    \/ ChildStack
    \/ StackReturn
    \/ TileNext

SpecRepeat == InitRepeat /\ [][NextRepeat]_vars
(***************************************************************************)
(* Claims about make_color.                                                *)
(***************************************************************************)
IsString(c) == c.type \in {"str", "unicode"}

AllHexAfterHash(s) == \A i \in 2..Len(s) : IsHexDigit(s[i])

\* '#' followed by n hex digits
IsHexForm(c, n) ==
    /\ IsString(c)
    /\ Len(c.chars) = n + 1
    /\ c.chars[1] = "#"
    /\ AllHexAfterHash(c.chars)

\* The tuple the documented expansion rule gives, digit by digit.
Twice(ch) == 17 * HexVal(ch)

Pair(c1, c2) == 16 * HexVal(c1) + HexVal(c2)

ExpectedColor(s) ==
    IF Len(s) = 4 THEN <<Twice(s[2]), Twice(s[3]), Twice(s[4]), 255>>
    ELSE IF Len(s) = 5 THEN <<Twice(s[2]), Twice(s[3]), Twice(s[4]), Twice(s[5])>>
    ELSE IF Len(s) = 7 THEN <<Pair(s[2], s[3]), Pair(s[4], s[5]), Pair(s[6], s[7]), 255>>
    ELSE <<Pair(s[2], s[3]), Pair(s[4], s[5]), Pair(s[6], s[7]), Pair(s[8], s[9])>>

\* The long form of a short form: every digit written twice.
Doubled(s) == [k \in 1..(2 * Len(s) - 1) |-> IF k = 1 THEN "#" ELSE s[(k \div 2) + 1]]

\* C6: on '#' followed by 3, 4, 6 or 8 hex digits make_color returns four
\* integers in 0..255, the ones the expansion rule gives (3 digits: rr, gg,
\* bb, 255; 4 digits: rr, gg, bb, aa; 6 digits: alpha 255; 8 digits: the
\* explicit alpha), and a short form parses like its doubled long form.
C6_ValidForms ==
    (pc = "done" /\ \E n \in {3, 4, 6, 8} : IsHexForm(color, n)) =>
        /\ colorOut.exc = "none"
        /\ Len(colorOut.val) = 4
        /\ \A i \in 1..4 : colorOut.val[i] \in 0..255
        /\ colorOut.val = ExpectedColor(color.chars)
        /\ Len(color.chars) \in {4, 5} =>
               make_color(PyStr(Doubled(color.chars))) = colorOut

C6_Witness ==
    /\ pc = "done"
    /\ IsHexForm(color, 4)
    /\ color.chars[2] # color.chars[3]
    /\ color.chars[4] # color.chars[5]
    /\ colorOut.exc = "none"

\* The inputs C7 names: no string, no leading '#', a length after '#' other
\* than 3, 4, 6 or 8, or a character after '#' that is no hex digit.
IsMalformedColor(c) ==
    \/ ~IsString(c)
    \/ Len(c.chars) = 0
    \/ c.chars[1] # "#"
    \/ (Len(c.chars) - 1) \notin {3, 4, 6, 8}
    \/ ~AllHexAfterHash(c.chars)

\* C7: on every malformed colour make_color raises KnownUnknown; it never
\* returns a tuple and never raises another exception.
C7_MalformedRaisesKnownUnknown ==
    (pc = "done" /\ IsMalformedColor(color)) => colorOut.exc = "KnownUnknown"


(***************************************************************************)
(* Claims about blend_images.                                              *)
(***************************************************************************)
\* C5: with opacity 0 blend_images raises nothing, whatever the top, the
\* mask and the mode tag (recognized or not); what it returns equals bottom
\* in all four channels, none of its arrays is an array of bottom, and
\* bottom holds after the call what it held before.
C5_BlendIdentity ==
    (pc = "done" /\ blendArgs.opacity = RZero) =>
        /\ blendOut.exc = "none"
        /\ blendOut.val.type = "list"
        /\ \A c \in 1..4 : blendOut.val.chan[c] = blendArgs.bottom.chan[c]
        /\ blendOut.shares = {}
        /\ blendOut.bottom = blendArgs.bottom.chan

C5_Witness ==
    /\ pc = "done"
    /\ blendArgs.opacity = RZero
    /\ blendArgs.blendmode = "multiply"
    /\ blendArgs.top.chan # blendArgs.bottom.chan
    /\ blendArgs.mask.type = "tuple"
    /\ blendOut.exc = "none"
    /\ blendOut.val.chan = img2rgba(ConfigLayers.tint).chan

\* the mask the claims speak of: the array given, or the alpha channel of
\* the four channels given
IsMaskGiven(m) == m.type \in {"list", "ndarray"}

\* C11: in mode 'hard light', with an opacity other than 0, the alpha
\* channel blend_images returns is the one of the plain mode,
\* 1 - (1 - bottom_a) * (1 - top_a * mask), in every pixel.
C11_HardLightAlpha ==
    (/\ pc = "done"
     /\ blendArgs.blendmode = "hard light"
     /\ blendArgs.opacity # RZero
     /\ IsMaskGiven(blendArgs.mask)) =>
        /\ blendOut.exc = "none"
        /\ \A p \in Pixels :
              blendOut.val.chan[4][p] =
                  PlainAlpha(MaskOf(blendArgs.mask).chan[1][p],
                             blendArgs.bottom.chan[4][p], blendArgs.top.chan[4][p])

\* C12: with an opacity other than 0, blend_images raises KnownUnknown and
\* returns nothing for every blend mode that is neither None nor
\* 'hard light'.
C12_UnknownModeFails ==
    (/\ pc = "done"
     /\ blendArgs.opacity # RZero
     /\ blendArgs.blendmode \notin {None, "hard light"}) =>
        blendOut.exc = "KnownUnknown" /\ blendOut.val = NoValue

(***************************************************************************)
(* Claims about Stack.render and Provider.renderTile.                      *)
(***************************************************************************)
IsPlainSrcLayer(node) ==
    /\ node.kind = "layer"
    /\ node.layername \in LayerNames
    /\ node.colorname = NoColor
    /\ node.maskname = None
    /\ node.opacity = ROne
    /\ node.blendmode = None
    /\ Len(node.adjustments.items) = 0

\* every pixel of the bitmap is fully opaque or fully transparent
IsBinaryAlpha(im) == \A p \in Pixels : im[p][4] \in {0, 255}

\* the leaves of a tree, depth first and left to right
RECURSIVE LeavesOf(_)
RECURSIVE LeavesOfAll(_)
LeavesOf(node) == IF node.kind = "layer" THEN <<node>> ELSE LeavesOfAll(node.layers)

LeavesOfAll(nodes) ==
    IF nodes = <<>> THEN <<>> ELSE LeavesOf(Head(nodes)) \o LeavesOfAll(Tail(nodes))

\* the pixel paint order gives: that of the last leaf opaque at p, or the
\* pixel of the input
PaintOrderPixel(leaves, input, p) ==
    LET opaque == {k \in 1..Len(leaves) : ConfigLayers[leaves[k].layername][p][4] = 255}
    IN  IF opaque = {} THEN input[p]
        ELSE ConfigLayers[leaves[CHOOSE k \in opaque : \A j \in opaque : j <= k].layername][p]

IsPaintOrderTree(node) ==
    \A k \in 1..Len(LeavesOf(node)) :
        /\ IsPlainSrcLayer(LeavesOf(node)[k])
        /\ IsBinaryAlpha(ConfigLayers[LeavesOf(node)[k].layername])

\* C2: a Stack.render over a tree of Stacks whose leaves are source-only
\* Layers with default opacity and blend mode, over bitmaps whose pixels are
\* fully opaque or fully transparent, returns in every pixel the pixel of
\* the last leaf (depth first, left to right) opaque there, and the pixel
\* of its input where no leaf is opaque.
C2_PaintOrder ==
    (lastCall.returned /\ IsPaintOrderTree(NodeAt(stack, lastCall.path))) =>
        \A p \in Pixels :
            lastCall.output[p] =
                PaintOrderPixel(LeavesOf(NodeAt(stack, lastCall.path)), lastCall.input, p)

\* a nested stack of two leaves painted over an input that is neither blank
\* nor opaque, with pixels decided by the first leaf, by the second, by none
C2_Witness ==
    /\ lastCall.returned
    /\ lastCall.path # <<>>
    /\ IsPaintOrderTree(NodeAt(stack, lastCall.path))
    /\ Len(LeavesOf(NodeAt(stack, lastCall.path))) = 2
    /\ \E p \in Pixels : lastCall.input[p][4] \notin {0, 255}
    /\ \E p \in Pixels : lastCall.output[p] = p999
    /\ \E p \in Pixels : lastCall.output[p] = fff
    /\ \E p \in Pixels : lastCall.output[p] = lastCall.input[p] /\ lastCall.input[p] # nil

\* C4: a Stack with no layers returns its input, in every pixel and channel.
C4_StackIdentity ==
    (lastCall.returned /\ NodeAt(stack, lastCall.path).layers = <<>>) =>
        lastCall.output = lastCall.input

C4_Witness ==
    /\ lastCall.returned
    /\ NodeAt(stack, lastCall.path).layers = <<>>
    /\ \E p \in Pixels : lastCall.input[p][4] \notin {0, 255}
    /\ lastCall.output = lastCall.input

\* C8: whatever makes a render fail, the exception that reaches the caller
\* of renderTile is KnownUnknown.
C8_OnlyKnownUnknownEscapes ==
    (pc = "done" /\ raised.exc # "none") => raised.exc = "KnownUnknown"

\* the lookups the node at a path made
FetchesOf(path) == {k \in 1..Len(fetchLog) : fetchLog[k].path = path}

\* the names a layer gives: its src and its mask
NamesGiven(node) ==
    (IF NameGiven(node.layername) THEN 1 ELSE 0) + (IF NameGiven(node.maskname) THEN 1 ELSE 0)

\* C9: when the render of a node fails, renderTile returns no image and no
\* activation of Stack.render is left; the node that failed is the last one
\* rendered, so that no later sibling is rendered or fetched; and no node is
\* rendered twice or looks a name up again.
C9_FailureAborts ==
    /\ raised.exc # "none" =>
          /\ frames = <<>>
          /\ image = NoValue
          /\ calls[Len(calls)] = raised.path
    /\ \A i, j \in 1..Len(calls) : calls[i] = calls[j] => i = j
    /\ \A k \in 1..Len(fetchLog) :
          /\ \E i \in 1..Len(calls) : calls[i] = fetchLog[k].path
          /\ Cardinality(FetchesOf(fetchLog[k].path))
                <= NamesGiven(NodeAt(stack, fetchLog[k].path))

\* the second of three layers failed, under a nested stack or not, after the
\* first was fetched
C9_Witness ==
    /\ raised.exc # "none"
    /\ Len(raised.path) = 2
    /\ raised.path[2] = 2
    /\ Len(NodeAt(stack, <<raised.path[1]>>).layers) > 2
    /\ Len(fetchLog) >= 2
    /\ pc = "done"

\* C14: for the stack {"src": name}, a Layer with a source and nothing
\* else, renderTile returns the bitmap of the named layer, in every pixel
\* and all four channels, partly transparent pixels included.
C14_SrcEchoes ==
    (pc = "done" /\ IsPlainSrcLayer(stack) /\ raised.exc = "none") =>
        image = ConfigLayers[stack.layername]
(***************************************************************************)
(* Claims about Layer.render.                                              *)
(***************************************************************************)
HasSrc(l) == NameGiven(l.layername)

HasColor(l) == ColorGiven(l.colorname)

HasMask(l) == NameGiven(l.maskname)

\* every name the layer gives is a key of config.layers
NamesResolve(l) ==
    /\ HasSrc(l) => l.layername \in LayerNames
    /\ HasMask(l) => l.maskname \in LayerNames

\* the colour, when given, is '#' followed by 3, 4, 6 or 8 hex digits
ColorIsValid(l) == HasColor(l) => \E n \in {3, 4, 6, 8} : IsHexForm(l.colorname, n)

IsRecognizedMode(b) == Falsy(b) \/ b = "hard light"

NoAdjustmentsGiven(l) == Len(l.adjustments.items) = 0

\* src + color + mask, mask alone, or nothing
IsIllegalCombination(l) ==
    \/ HasSrc(l) /\ HasColor(l) /\ HasMask(l)
    \/ ~HasSrc(l) /\ ~HasColor(l)

IsRaster(v) ==
    /\ DOMAIN v = Pixels
    /\ \A p \in Pixels : DOMAIN v[p] = 1..4 /\ \A c \in 1..4 : v[p][c] \in 0..255

\* C1: with names that resolve, a valid colour, a recognized blend mode and
\* no adjustments, Layer.render raises KnownUnknown when src, color and mask
\* are all given, when only mask is given and when nothing is given, and
\* returns an image for each of the five other combinations.
C1_LegalCombinations ==
    (/\ pc = "done"
     /\ NamesResolve(layer)
     /\ ColorIsValid(layer)
     /\ IsRecognizedMode(layer.blendmode)
     /\ NoAdjustmentsGiven(layer)) =>
        IF IsIllegalCombination(layer)
            THEN layerOut.exc = "KnownUnknown" /\ layerOut.val = NoValue
        ELSE layerOut.exc = "none" /\ IsRaster(layerOut.val)

\* src, color and mask all given, everything else in order
C1_Witness ==
    /\ pc = "done"
    /\ HasSrc(layer) /\ HasColor(layer) /\ HasMask(layer)
    /\ NamesResolve(layer)
    /\ ColorIsValid(layer)
    /\ layer.blendmode = "hard light"
    /\ NoAdjustmentsGiven(layer)
    /\ layerOut.exc = "KnownUnknown"

\* C3: a layer with a mask, src + mask or color + mask, returns the pixel of
\* its input in all four channels wherever the grey value of the mask is 0,
\* at every opacity and in every recognized blend mode.
C3_MaskZeroUnchanged ==
    (/\ pc = "done"
     /\ HasMask(layer)
     /\ HasSrc(layer) # HasColor(layer)
     /\ NamesResolve(layer)
     /\ IsRecognizedMode(layer.blendmode)
     /\ layerOut.exc = "none") =>
        \A p \in Pixels :
            ConvertL(ConfigLayers[layer.maskname])[p] = 0 => layerOut.val[p] = layerInput[p]

\* an entry of the adjustments whose name is not 'curves'
HasUnknownAdjustment(l) ==
    \E i \in 1..Len(l.adjustments.items) : l.adjustments.items[i].name # "curves"

\* C10: the render of a layer with an adjustment other than 'curves' raises
\* KnownUnknown, whichever of src, color and mask the layer gives.
C10_UnknownAdjustmentFails ==
    (/\ pc = "done"
     /\ HasUnknownAdjustment(layer)
     /\ NamesResolve(layer)
     /\ ColorIsValid(layer)) => layerOut.exc = "KnownUnknown"

\* C13: the image Layer.render returns holds, for every channel value
\* outside [0, 1], the nearer of 0 and 255: it is the image the saturating
\* conversion gives, never the one with the value modulo 256.
C13_ConversionSaturates ==
    (pc = "done" /\ layerOut.exc = "none") =>
        layerOut.val = LayerRender(layer, layerInput, "saturate").val

\* a list, not empty, of 'curves' whose black, grey and white differ pairwise
HasDistinctCurvesOnly(l) ==
    /\ Len(l.adjustments.items) > 0
    /\ \A i \in 1..Len(l.adjustments.items) :
          /\ l.adjustments.items[i].name = "curves"
          /\ Solvable(Knowns(l.adjustments.items[i].args))

\* C16: a layer with a source, no mask, the plain blend mode and a list of
\* such curves renders: Layer.render raises nothing and returns an image.
C16_CurvesLayerRenders ==
    (/\ pc = "done"
     /\ HasSrc(layer)
     /\ ~HasMask(layer)
     /\ NamesResolve(layer)
     /\ ColorIsValid(layer)
     /\ layer.blendmode = None
     /\ HasDistinctCurvesOnly(layer)) =>
        layerOut.exc = "none" /\ IsRaster(layerOut.val)
(***************************************************************************)
(* Claims about what a render leaves behind.                               *)
(***************************************************************************)
\* C15: no call changes what it was given.  After blend_images, raising or
\* not, bottom_rgba holds what it held; after Stack.render input_img holds
\* what it held; and no step of any sequence of calls changes the tree of
\* the Provider, the Layer rendered, the image it is rendered on or the
\* arguments of blend_images.
C15_NoSideEffects ==
    /\ []((pc = "done" /\ InBlend) => blendOut.bottom = blendArgs.bottom.chan)
    /\ [](lastCall.returned => lastCall.inputAfter = lastCall.input)
    /\ [][/\ stack' = stack
          /\ layer' = layer
          /\ layerInput' = layerInput
          /\ blendArgs' = blendArgs]_vars

\* a hard light blend that changed R, G or B: the assignments through the
\* index arrays dk and lt have run
C15_Witness ==
    /\ pc = "done"
    /\ blendArgs.blendmode = "hard light"
    /\ blendArgs.opacity = ROne
    /\ blendOut.exc = "none"
    /\ \E c \in 1..3 : blendOut.val.chan[c] # blendArgs.bottom.chan[c]
    /\ blendOut.bottom = blendArgs.bottom.chan
=============================================================================
